---- MODULE Spec2Model ----
(***************************************************************************)
(* Model of the N1QL query path of gocb (query.go): Cluster.query with its *)
(* timeout reconciliation and retry loop, doPreparedN1qlQuery with the     *)
(* shared plan cache, prepareN1qlQuery, executeN1qlQuery and the           *)
(* n1qlResults cursor.                                                     *)
(*                                                                         *)
(* Strings are sequences of tokens, so that "PREPARE " + stmt is            *)
(* <<"PREPARE">> \o stmt and the empty string is <<>>.  Durations are      *)
(* integers (clock units); a duration string is <<d, "ms">>.               *)
(***************************************************************************)
EXTENDS Integers, Sequences, FiniteSets, TLC

----------------------------------------------------------------------------
(* Bounds of the model *)

\* the clock runs over 0..MaxTime
MaxTime == 2
\* client default timeouts are drawn from 1..MaxTimeout
MaxTimeout == 2
\* retry policies allow 0..MaxRetries retries
MaxRetries == 2
\* iterations of the retry loop observed after the derived context is done
MaxSpins == 1
\* number of goroutines that may call Cluster.query
NumCallers == 2
\* a response observed in full carries at most MaxRows rows
MaxRows == 3

Procs == 1..NumCallers
\* callers that act in the sequential specification
SeqProcs == {1}

----------------------------------------------------------------------------
(* Values *)

\* error values; NoErr is Go's nil error
NoErr == [type |-> "nil"]
DeadlineExceeded == [type |-> "context.DeadlineExceeded"]
ParseDurationErr == [type |-> "time.ParseDuration"]
JsonDecodeErr == [type |-> "json.Decode"]
JsonUnmarshalErr == [type |-> "json.Unmarshal"]
DispatchErr(retryable) == [type |-> "dispatch", retryable |-> retryable]
n1qlMultiError(errors) == [type |-> "n1qlMultiError", errors |-> errors]

\* n1qlError: code and message
n1qlError(code, msg) == [Code |-> code, Message |-> msg]

\* (*n1qlError).Error: fmt.Sprintf("[%d] %s", e.Code, e.Message)
n1qlErrorError(e) == <<"[", e.Code, "] ", e.Message>>

\* (*n1qlMultiError).Error and Code: those of the first error
n1qlMultiErrorError(err) == n1qlErrorError(err.errors[1])
n1qlMultiErrorCode(err) == err.errors[1].Code

\* statements the callers run; "" is <<>>
Stmts == {<<"s1">>, <<"s2">>}
EmptyString == <<>>
CacheKeys == Stmts \cup {EmptyString}

\* context deadlines: <<>> is "no deadline", <<d>> is a deadline at time d
NoDeadline == <<>>
DeadlineAt(d) == <<d>>

\* *n1qlCache: nil or a plan (name, encodedPlan)
NilPlan == [nil |-> TRUE]
n1qlCache(name, encodedPlan) == [nil |-> FALSE, name |-> name, encodedPlan |-> encodedPlan]

\* rows of a response body (json.RawMessage): valid says whether the row
\* unmarshals into the target; name/encoded_plan are the fields n1qlPrepData reads
Row(valid, name, plan) == [valid |-> valid, name |-> name, encoded_plan |-> plan]
BadRow == Row(FALSE, "", "")
PlanRow == Row(TRUE, "p1", "e1")

\* n1qlPrepData zero value
ZeroPrepData == [Name |-> "", EncodedPlan |-> ""]

\* QueryResults: nil or a cursor
NilResults == [nil |-> TRUE]
\* a nil []byte
NilRow == [nil |-> TRUE]

----------------------------------------------------------------------------
(* map[string]interface{} as a function over the keys present *)

MapHas(m, k) == k \in DOMAIN m
MapSet(m, k, v) == [x \in (DOMAIN m) \cup {k} |-> IF x = k THEN v ELSE m[x]]
MapDelete(m, k) == [x \in (DOMAIN m) \ {k} |-> m[x]]
EmptyMap == [x \in {} |-> NoErr]

\* time.ParseDuration on <<d, "ms">>; anything else fails to parse
ParseDuration(str) ==
    IF Len(str) = 2 /\ str[2] = "ms"
    THEN [d |-> str[1], err |-> NoErr]
    ELSE [d |-> 0, err |-> ParseDurationErr]

\* time.Duration.String
DurationString(d) == <<d, "ms">>

----------------------------------------------------------------------------
(* n1qlResults: the result cursor *)

\* json.Unmarshal(row, &n1qlPrepData): unknown fields are ignored, a row that
\* is no object fails and leaves the target as it was
Unmarshal(row, target) ==
    IF row.valid
    THEN [err |-> NoErr, val |-> [Name |-> row.name, EncodedPlan |-> row.encoded_plan]]
    ELSE [err |-> JsonUnmarshalErr, val |-> target]

\* a NextBytes that starts over after the last row
NextBytesRestarts(r) ==
    IF r.err # NoErr
    THEN [r |-> r, row |-> NilRow]
    ELSE IF r.index + 1 >= Len(r.rows)
         THEN [r |-> [r EXCEPT !.closed = TRUE, !.index = -1], row |-> NilRow]
         ELSE [r |-> [r EXCEPT !.index = @ + 1], row |-> r.rows[r.index + 2]]

\* a NextBytes that does not look at the retained error
NextBytesPastError(r) ==
    IF r.index + 1 >= Len(r.rows)
    THEN [r |-> [r EXCEPT !.closed = TRUE], row |-> NilRow]
    ELSE [r |-> [r EXCEPT !.index = @ + 1], row |-> r.rows[r.index + 2]]

\* r.NextBytes(): Go index i is position i + 1 of the sequence
NextBytes(r) ==
    IF r.err # NoErr
    THEN [r |-> r, row |-> NilRow]
    ELSE IF r.index + 1 >= Len(r.rows)
         THEN [r |-> [r EXCEPT !.closed = TRUE], row |-> NilRow]
         ELSE [r |-> [r EXCEPT !.index = @ + 1], row |-> r.rows[r.index + 2]]

\* r.Next(valuePtr)
ResultsNext(r, target) ==
    IF r.err # NoErr
    THEN [r |-> r, ok |-> FALSE, val |-> target]
    ELSE LET nb == NextBytes(r) IN
         IF nb.row = NilRow
         THEN [r |-> nb.r, ok |-> FALSE, val |-> target]
         ELSE LET u == Unmarshal(nb.row, target) IN
              [r |-> [nb.r EXCEPT !.err = u.err], ok |-> u.err = NoErr, val |-> u.val]

\* a Close that hands the retained error over once
CloseClearsError(r) == [r |-> [r EXCEPT !.closed = TRUE, !.err = NoErr], err |-> r.err]

\* r.Close()
Close(r) == [r |-> [r EXCEPT !.closed = TRUE], err |-> r.err]

\* a One that leaves the cursor open once it has its row
OneLeavesOpen(r, target) ==
    LET n == ResultsNext(r, target)
        c == Close(n.r)
    IN  IF n.ok
        THEN [r |-> n.r, err |-> NoErr, val |-> n.val]
        ELSE [r |-> c.r, err |-> c.err, val |-> n.val]

\* r.One(valuePtr)
One(r, target) ==
    LET n == ResultsNext(r, target)
        c == Close(n.r)
    IN  IF ~n.ok /\ c.err # NoErr
        THEN [r |-> c.r, err |-> c.err, val |-> n.val]
        ELSE [r |-> Close(c.r).r, err |-> NoErr, val |-> n.val]

----------------------------------------------------------------------------
(* The query provider and executeN1qlQuery *)

\* what DoHttpRequest can return: an error, or a response with a status code
\* and a body that decodes (or not) into an n1qlResponse
DispatchFailure(retryable) == [ok |-> FALSE, err |-> DispatchErr(retryable)]
\* n1qlResponseMetrics: the two durations as strings and a count (the other
\* counts are copied the same way)
ResponseMetrics(elapsed, execution, count) ==
    [ElapsedTime |-> elapsed, ExecutionTime |-> execution, ResultCount |-> count]

\* requestID, clientContextID and metrics of a response body
ResponseMeta(requestId, clientContextId, metrics) ==
    [RequestId |-> requestId, ClientContextId |-> clientContextId, Metrics |-> metrics]

DefaultMeta == ResponseMeta("r1", "c1", ResponseMetrics(<<1, "ms">>, <<1, "ms">>, 0))

HttpResponseWith(status, decodable, errors, results, meta) ==
    [ok |-> TRUE, StatusCode |-> status, decodable |-> decodable,
     Errors |-> errors, Results |-> results,
     RequestId |-> meta.RequestId, ClientContextId |-> meta.ClientContextId,
     Metrics |-> meta.Metrics]

HttpResponse(status, decodable, errors, results) ==
    HttpResponseWith(status, decodable, errors, results, DefaultMeta)

ErrorLists ==
    { <<>>,
      <<n1qlError(4050, "plan not found")>>,
      <<n1qlError(1000, "syntax"), n1qlError(4050, "plan not found")>> }

ResultLists == { <<>>, <<PlanRow>>, <<BadRow>> }

StatusCodes == {200, 500}

\* the responses the provider gives in the model: a dispatch error, a body
\* that does not decode, an error list, or rows
Responses ==
    { DispatchFailure(b) : b \in BOOLEAN } \cup
    { HttpResponse(st, FALSE, <<>>, <<>>) : st \in StatusCodes } \cup
    { HttpResponse(st, TRUE, e, <<>>) : st \in StatusCodes, e \in ErrorLists } \cup
    { HttpResponse(st, TRUE, <<>>, r) : st \in StatusCodes, r \in ResultLists }

\* rows of a response observed in full
RowValues == {PlanRow, BadRow}
RowLists == UNION { [1..k -> RowValues] : k \in 0..MaxRows }

\* request id, client context id and metrics a server may send; "bad" is a
\* duration that does not parse
ResponseMetas ==
    { DefaultMeta,
      ResponseMeta("r2", "c2", ResponseMetrics(<<"bad">>, <<2, "ms">>, 1)) }

\* every response the provider may give: any status with any body
ObservedResponses ==
    { DispatchFailure(b) : b \in BOOLEAN } \cup
    { HttpResponseWith(st, d, e, r, m) :
        st \in StatusCodes, d \in BOOLEAN, e \in ErrorLists,
        r \in RowLists, m \in ResponseMetas }

\* executeN1qlQuery, lines 447-455 and 471-480: the durations are parsed,
\* zero when they do not parse
QueryResultMetrics(m) ==
    [ElapsedTime |-> ParseDuration(m.ElapsedTime).d,
     ExecutionTime |-> ParseDuration(m.ExecutionTime).d,
     ResultCount |-> m.ResultCount]

\* an executeN1qlQuery that looks at the error list only when the status is
\* not 200
executeN1qlQueryTrusting200(resp) ==
    IF ~resp.ok
    THEN [res |-> NilResults, err |-> resp.err, bodyClosed |-> FALSE]
    ELSE IF ~resp.decodable
    THEN [res |-> NilResults, err |-> JsonDecodeErr, bodyClosed |-> FALSE]
    ELSE IF Len(resp.Errors) > 0 /\ resp.StatusCode # 200
    THEN [res |-> NilResults, err |-> n1qlMultiError(resp.Errors), bodyClosed |-> TRUE]
    ELSE [res |-> [nil |-> FALSE, closed |-> FALSE, index |-> -1,
                   rows |-> resp.Results, err |-> NoErr,
                   requestId |-> resp.RequestId,
                   clientContextId |-> resp.ClientContextId,
                   metrics |-> QueryResultMetrics(resp.Metrics)],
          err |-> NoErr, bodyClosed |-> TRUE]

\* executeN1qlQuery once DoHttpRequest has returned resp
executeN1qlQuery(resp) ==
    IF ~resp.ok
    THEN [res |-> NilResults, err |-> resp.err, bodyClosed |-> FALSE]
    ELSE IF ~resp.decodable
    THEN [res |-> NilResults, err |-> JsonDecodeErr, bodyClosed |-> FALSE]
    ELSE IF Len(resp.Errors) > 0
    THEN [res |-> NilResults, err |-> n1qlMultiError(resp.Errors), bodyClosed |-> TRUE]
    ELSE [res |-> [nil |-> FALSE, closed |-> FALSE, index |-> -1,
                   rows |-> resp.Results, err |-> NoErr,
                   requestId |-> resp.RequestId,
                   clientContextId |-> resp.ClientContextId,
                   metrics |-> QueryResultMetrics(resp.Metrics)],
          err |-> NoErr, bodyClosed |-> TRUE]

\* server codes after which the statement is to be prepared again
RetryableCodes == {4050, 4070, 5000}

\* isRetryableError
isRetryableError(err) ==
    \/ err.type = "dispatch" /\ err.retryable
    \/ err.type = "n1qlMultiError" /\ err.errors[1].Code \in RetryableCodes

----------------------------------------------------------------------------
(* Timeouts and contexts *)

\* the retry behaviour injected in the state block: nil, or a policy that
\* allows maxRetries retries
NilBehavior == [nil |-> TRUE]
RetryBehavior(maxRetries) == [nil |-> FALSE, maxRetries |-> maxRetries]
CanRetry(b, retries) == retries <= b.maxRetries

\* variant: the sign of the override is not checked
n1qlEffectiveTimeoutUnsigned(optTimeout, timeout) ==
    IF optTimeout < timeout THEN optTimeout ELSE timeout

\* query: the timeout to use, the cluster default or the query's own
n1qlEffectiveTimeout(optTimeout, timeout) ==
    IF optTimeout > 0 /\ optTimeout < timeout THEN optTimeout ELSE timeout

\* searchQuery: the same choice for a search query, has saying whether
\* ctl.timeout is set
searchEffectiveTimeout(has, opTimeout, timeout) ==
    IF has /\ ~(opTimeout <= 0 \/ opTimeout > timeout) THEN opTimeout ELSE timeout

\* variant: the child is derived from the background context
WithTimeoutOfBackground(parent, t, timeout) == t + timeout

\* context.WithTimeout(parent, timeout) at time t: the deadline of the child
WithTimeout(parent, t, timeout) ==
    IF parent # NoDeadline /\ parent[1] < t + timeout THEN parent[1] ELSE t + timeout

\* <-ctx.Done() is ready at time t
Done(deadline, t) == t >= deadline

\* ctx.Err() of the caller's context at time t
ParentErr(parent, t) ==
    IF parent # NoDeadline /\ t >= parent[1] THEN DeadlineExceeded ELSE NoErr

\* what the caller may put in the options
TimeoutStrings == { DurationString(d) : d \in 0..(MaxTimeout + 1) } \cup { <<"bad">> }
Options == { EmptyMap } \cup { MapSet(EmptyMap, "timeout", s) : s \in TimeoutStrings }
\* the options of the calls whose retry loop and cache use are followed: no
\* override (the client default ranges over every timeout) or one that fails to parse
CallOptions == { EmptyMap, MapSet(EmptyMap, "timeout", <<"bad">>) }
ParentDeadlines == { NoDeadline } \cup { DeadlineAt(d) : d \in 0..MaxTime }

\* createQueryOpts (positional and named parameters are not modelled)
createQueryOpts(statement, options) ==
    [k \in {"statement"} \cup DOMAIN options |->
        IF k \in DOMAIN options THEN options[k] ELSE statement]

----------------------------------------------------------------------------
(* State *)

VARIABLES
    now,               \* the clock
    n1qlTimeout,       \* c.n1qlTimeout(): the client default
    N1qlRetryBehavior, \* c.sb.N1qlRetryBehavior
    queryCache,        \* c.queryCache: statement text -> *n1qlCache
    clusterLock,       \* c.clusterLock: readers and writer holding it
    pc,                \* where each caller is in Cluster.query
    call,              \* the arguments and locals of each caller's Cluster.query
    hist               \* what each call has done so far (observation only)

vars == <<now, n1qlTimeout, N1qlRetryBehavior, queryCache, clusterLock, pc, call, hist>>

IdleCall ==
    [adHoc |-> FALSE, statement |-> EmptyString, parent |-> NoDeadline,
     options |-> EmptyMap, start |-> 0,
     queryOpts |-> EmptyMap, timeout |-> 0, ctx |-> 0, retries |-> 0,
     res |-> NilResults, err |-> NoErr, stmtStr |-> EmptyString, cachedStmt |-> NilPlan]

\* the zero QueryResultMetrics
ZeroMetrics == [ElapsedTime |-> 0, ExecutionTime |-> 0, ResultCount |-> 0]

\* what an operation on the result cursor gave back; again: the operation
\* before it was the same one
NoOutcome ==
    [op |-> "none", row |-> NilRow, ok |-> FALSE, err |-> NoErr,
     val |-> ZeroPrepData, str |-> "", metrics |-> ZeroMetrics,
     panicked |-> FALSE, again |-> FALSE]

\* no response observed
NoResponse == [ok |-> FALSE, err |-> NoErr]

IdleHist ==
    [spins |-> 0, sleeps |-> 0, lookups |-> 0, stores |-> 0, reqs |-> <<>>,
     lastErr |-> NoErr,
     cacheAtCall |-> [k \in CacheKeys |-> NilPlan],
     resp |-> NoResponse, bodyClosed |-> FALSE, last |-> NoOutcome]

RetryBehaviors ==
    { NilBehavior } \cup
    { RetryBehavior(n) : n \in 0..MaxRetries }

Init ==
    /\ now = 0
    /\ n1qlTimeout \in 1..MaxTimeout
    /\ N1qlRetryBehavior \in RetryBehaviors
    /\ queryCache = [k \in CacheKeys |-> NilPlan]
    /\ clusterLock = [readers |-> {}, writer |-> 0]
    /\ pc = [p \in Procs |-> "idle"]
    /\ call = [p \in Procs |-> IdleCall]
    /\ hist = [p \in Procs |-> IdleHist]

\* a panic ends the program
Crashed == \E p \in Procs : pc[p] = "panicked"

----------------------------------------------------------------------------
(* Cluster.query *)

\* the request a dispatch sends and what came of it
Request(kind, c, opts) ==
    [kind |-> kind, attempt |-> c.retries, opts |-> opts]

\* h after that request was dispatched and ended with err
Dispatched(h, req, err) == [h EXCEPT !.reqs = Append(@, req), !.lastErr = err]

\* variant: CanRetry is asked about the next attempt
ShouldReturnOffByOne(err, retries) ==
    \/ ~isRetryableError(err)
    \/ N1qlRetryBehavior = NilBehavior
    \/ ~CanRetry(N1qlRetryBehavior, retries + 1)

\* variant: the error is not classified
ShouldReturnUnclassified(err, retries) ==
    \/ N1qlRetryBehavior = NilBehavior
    \/ ~CanRetry(N1qlRetryBehavior, retries)

\* query, line 279: the error ends the call
ShouldReturn(err, retries) ==
    \/ ~isRetryableError(err)
    \/ N1qlRetryBehavior = NilBehavior
    \/ ~CanRetry(N1qlRetryBehavior, retries)

\* query, lines 275-283: after a unit of work
AfterUnit(err, retries) ==
    IF err = NoErr THEN "returned"
    ELSE IF ShouldReturn(err, retries) THEN "returned"
    ELSE "sleep"

\* variant: the mode is ignored
UnitOfWorkPrepared(adHoc) == "rlock"

\* query, lines 270-274: which unit of work the mode selects
UnitOfWork(adHoc) == IF adHoc THEN "adhoc" ELSE "rlock"

\* the unit of work of caller p ends with (res, err)
Complete(p, c, res, err, h) ==
    /\ pc' = [pc EXCEPT ![p] = AfterUnit(err, c.retries)]
    /\ call' = [call EXCEPT ![p] = [c EXCEPT !.res = res, !.err = err]]
    /\ hist' = [hist EXCEPT ![p] = h]

\* query, lines 235-260: options, timeout and the derived context
Query(p, adHoc, statement, parent, options) ==
    /\ ~Crashed
    /\ pc[p] = "idle"
    /\ LET queryOpts == createQueryOpts(statement, options)
           castok == MapHas(queryOpts, "timeout")
           parsed == IF castok THEN ParseDuration(queryOpts["timeout"])
                               ELSE [d |-> 0, err |-> NoErr]
           timeout == n1qlEffectiveTimeout(parsed.d, n1qlTimeout)
           c == [IdleCall EXCEPT !.adHoc = adHoc, !.statement = statement,
                                 !.parent = parent, !.options = options,
                                 !.start = now, !.queryOpts = queryOpts]
       IN  IF parsed.err # NoErr
           THEN /\ pc' = [pc EXCEPT ![p] = "returned"]
                /\ call' = [call EXCEPT ![p] = [c EXCEPT !.err = parsed.err]]
           ELSE /\ pc' = [pc EXCEPT ![p] = "loop"]
                /\ call' = [call EXCEPT ![p] =
                     [c EXCEPT !.timeout = timeout,
                               !.queryOpts = MapSet(queryOpts, "timeout", DurationString(timeout)),
                               !.ctx = WithTimeout(parent, now, timeout)]]
    /\ hist' = [hist EXCEPT ![p] = [IdleHist EXCEPT !.cacheAtCall = queryCache]]
    /\ UNCHANGED <<now, n1qlTimeout, N1qlRetryBehavior, queryCache, clusterLock>>

\* query, lines 264-270: the top of the retry loop
LoopTop(p) ==
    /\ ~Crashed
    /\ pc[p] = "loop"
    /\ IF Done(call[p].ctx, now)
       THEN /\ hist[p].spins < MaxSpins
            /\ call' = [call EXCEPT ![p].err = DeadlineExceeded]
            /\ hist' = [hist EXCEPT ![p].spins = @ + 1]
            /\ pc' = pc
       ELSE /\ call' = [call EXCEPT ![p].retries = @ + 1]
            /\ pc' = [pc EXCEPT ![p] = UnitOfWork(call[p].adHoc)]
            /\ hist' = hist
    /\ UNCHANGED <<now, n1qlTimeout, N1qlRetryBehavior, queryCache, clusterLock>>

\* query, line 271: the ad-hoc unit of work
ExecuteAdHoc(p) ==
    /\ ~Crashed
    /\ pc[p] = "adhoc"
    /\ \E resp \in Responses :
         LET c == call[p]
             out == executeN1qlQuery(resp)
             h == Dispatched(hist[p], Request("execute", c, c.queryOpts), out.err)
         IN  Complete(p, c, out.res, out.err, h)
    /\ UNCHANGED <<now, n1qlTimeout, N1qlRetryBehavior, queryCache, clusterLock>>

\* query, line 283: time.Sleep(NextInterval(retries)) returns; the time that
\* passed while the caller was at "sleep" is the interval (Tick)
Sleep(p) ==
    /\ ~Crashed
    /\ pc[p] = "sleep"
    /\ pc' = [pc EXCEPT ![p] = "loop"]
    /\ hist' = [hist EXCEPT ![p].sleeps = @ + 1]
    /\ UNCHANGED <<now, n1qlTimeout, N1qlRetryBehavior, queryCache, clusterLock, call>>

\* the caller has the result of the call and may call again
Return(p) ==
    /\ ~Crashed
    /\ pc[p] = "returned"
    /\ pc' = [pc EXCEPT ![p] = "idle"]
    /\ call' = [call EXCEPT ![p] = IdleCall]
    /\ hist' = [hist EXCEPT ![p] = IdleHist]
    /\ UNCHANGED <<now, n1qlTimeout, N1qlRetryBehavior, queryCache, clusterLock>>

\* time passes
Tick ==
    /\ now < MaxTime
    /\ now' = now + 1
    /\ UNCHANGED <<n1qlTimeout, N1qlRetryBehavior, queryCache, clusterLock, pc, call, hist>>

----------------------------------------------------------------------------
(* Cluster.doPreparedN1qlQuery and Cluster.prepareN1qlQuery *)

\* options that get the plan and keep the statement
WithPlanKeepsStatement(queryOpts, cachedStmt) ==
    MapSet(MapSet(queryOpts, "prepared", cachedStmt.name),
           "encoded_plan", cachedStmt.encodedPlan)

\* doPreparedN1qlQuery, lines 304-306 and 343-345: the plan replaces the statement
WithPlan(queryOpts, cachedStmt) ==
    MapSet(MapSet(MapDelete(queryOpts, "statement"),
                  "prepared", cachedStmt.name),
           "encoded_plan", cachedStmt.encodedPlan)

\* doPreparedN1qlQuery, line 293: queryOpts["statement"].(string), "" when absent
StatementOf(queryOpts) ==
    IF MapHas(queryOpts, "statement") THEN queryOpts["statement"] ELSE EmptyString

\* variant: the lookup finds nothing
CacheLookupMiss(cache, stmtStr) == NilPlan

\* doPreparedN1qlQuery, line 299: c.queryCache[stmtStr]
CacheLookup(cache, stmtStr) == cache[stmtStr]

\* prepareN1qlQuery, lines 356-362: prepOpts is built, opts is what is sent
PrepareRequest(opts) ==
    LET prepOpts == MapSet(opts, "statement", <<"PREPARE">> \o opts["statement"])
    IN  opts

\* doPreparedN1qlQuery, lines 293 and 298: c.clusterLock.RLock()
RLock(p) ==
    /\ ~Crashed
    /\ pc[p] = "rlock"
    /\ clusterLock.writer = 0
    /\ clusterLock' = [clusterLock EXCEPT !.readers = @ \cup {p}]
    /\ call' = [call EXCEPT ![p].stmtStr = StatementOf(call[p].queryOpts)]
    /\ pc' = [pc EXCEPT ![p] = "read"]
    /\ UNCHANGED <<now, n1qlTimeout, N1qlRetryBehavior, queryCache, hist>>

\* doPreparedN1qlQuery, line 299: the map read
ReadCache(p) ==
    /\ ~Crashed
    /\ pc[p] = "read"
    /\ call' = [call EXCEPT ![p].cachedStmt = CacheLookup(queryCache, call[p].stmtStr)]
    /\ hist' = [hist EXCEPT ![p].lookups = @ + 1]
    /\ pc' = [pc EXCEPT ![p] = "runlock"]
    /\ UNCHANGED <<now, n1qlTimeout, N1qlRetryBehavior, queryCache, clusterLock>>

\* a lookup that leaves without RUnlock
RUnlockForgotten(p) ==
    /\ ~Crashed
    /\ pc[p] = "runlock"
    /\ pc' = [pc EXCEPT ![p] = IF call[p].cachedStmt # NilPlan THEN "cached" ELSE "prepare"]
    /\ UNCHANGED <<now, n1qlTimeout, N1qlRetryBehavior, queryCache, clusterLock, call, hist>>

\* doPreparedN1qlQuery, lines 300-302: c.clusterLock.RUnlock()
RUnlock(p) ==
    /\ ~Crashed
    /\ pc[p] = "runlock"
    /\ clusterLock' = [clusterLock EXCEPT !.readers = @ \ {p}]
    /\ pc' = [pc EXCEPT ![p] = IF call[p].cachedStmt # NilPlan THEN "cached" ELSE "prepare"]
    /\ UNCHANGED <<now, n1qlTimeout, N1qlRetryBehavior, queryCache, call, hist>>

\* a cache-hit execution that prepares again after any failure
ExecuteCachedReprepareAlways(p) ==
    /\ ~Crashed
    /\ pc[p] = "cached"
    /\ \E resp \in Responses :
         LET opts == WithPlan(call[p].queryOpts, call[p].cachedStmt)
             c == [call[p] EXCEPT !.queryOpts = opts]
             out == executeN1qlQuery(resp)
             h == Dispatched(hist[p], Request("execute", c, opts), out.err)
         IN  IF out.err = NoErr
             THEN Complete(p, c, out.res, NoErr, h)
             ELSE /\ pc' = [pc EXCEPT ![p] = "prepare"]
                  /\ call' = [call EXCEPT ![p] = c]
                  /\ hist' = [hist EXCEPT ![p] = h]
    /\ UNCHANGED <<now, n1qlTimeout, N1qlRetryBehavior, queryCache, clusterLock>>

\* doPreparedN1qlQuery, lines 302-323: execute the cached plan
ExecuteCached(p) ==
    /\ ~Crashed
    /\ pc[p] = "cached"
    /\ \E resp \in Responses :
         LET opts == WithPlan(call[p].queryOpts, call[p].cachedStmt)
             c == [call[p] EXCEPT !.queryOpts = opts]
             out == executeN1qlQuery(resp)
             h == Dispatched(hist[p], Request("execute", c, opts), out.err)
         IN  IF out.err = NoErr
             THEN Complete(p, c, out.res, NoErr, h)
             ELSE IF ~isRetryableError(out.err)
             THEN Complete(p, c, NilResults, out.err, h)
             ELSE /\ pc' = [pc EXCEPT ![p] = "prepare"]
                  /\ call' = [call EXCEPT ![p] = c]
                  /\ hist' = [hist EXCEPT ![p] = h]
    /\ UNCHANGED <<now, n1qlTimeout, N1qlRetryBehavior, queryCache, clusterLock>>

\* a prepare step that goes on to the store whatever prepareN1qlQuery returned
PrepareStoresAnyway(p) ==
    /\ ~Crashed
    /\ pc[p] = "prepare"
    /\ IF ~MapHas(call[p].queryOpts, "statement")
       THEN /\ pc' = [pc EXCEPT ![p] = "panicked"]
            /\ UNCHANGED <<call, hist>>
       ELSE \E resp \in Responses :
              LET c == call[p]
                  sent == PrepareRequest(c.queryOpts)
                  out == executeN1qlQuery(resp)
                  one == One(out.res, ZeroPrepData)
                  err == IF out.err # NoErr THEN out.err ELSE one.err
                  h == Dispatched(hist[p], Request("prepare", c, sent), err)
              IN  /\ pc' = [pc EXCEPT ![p] = "wlock"]
                  /\ call' = [call EXCEPT ![p].cachedStmt =
                                 IF err = NoErr
                                 THEN n1qlCache(one.val.Name, one.val.EncodedPlan)
                                 ELSE n1qlCache("", "")]
                  /\ hist' = [hist EXCEPT ![p] = h]
    /\ UNCHANGED <<now, n1qlTimeout, N1qlRetryBehavior, queryCache, clusterLock>>

\* doPreparedN1qlQuery, lines 325-335, and prepareN1qlQuery: opts["statement"].(string)
\* panics when the key is absent
Prepare(p) ==
    /\ ~Crashed
    /\ pc[p] = "prepare"
    /\ IF ~MapHas(call[p].queryOpts, "statement")
       THEN /\ pc' = [pc EXCEPT ![p] = "panicked"]
            /\ UNCHANGED <<call, hist>>
       ELSE \E resp \in Responses :
              LET c == call[p]
                  sent == PrepareRequest(c.queryOpts)
                  out == executeN1qlQuery(resp)
                  one == One(out.res, ZeroPrepData)
                  err == IF out.err # NoErr THEN out.err ELSE one.err
                  h == Dispatched(hist[p], Request("prepare", c, sent), err)
              IN  IF err # NoErr
                  THEN Complete(p, c, NilResults, err, h)
                  ELSE /\ pc' = [pc EXCEPT ![p] = "wlock"]
                       /\ call' = [call EXCEPT ![p].cachedStmt =
                                      n1qlCache(one.val.Name, one.val.EncodedPlan)]
                       /\ hist' = [hist EXCEPT ![p] = h]
    /\ UNCHANGED <<now, n1qlTimeout, N1qlRetryBehavior, queryCache, clusterLock>>

\* doPreparedN1qlQuery, line 338: c.clusterLock.Lock()
Lock(p) ==
    /\ ~Crashed
    /\ pc[p] = "wlock"
    /\ clusterLock.writer = 0
    /\ clusterLock.readers = {}
    /\ clusterLock' = [clusterLock EXCEPT !.writer = p]
    /\ pc' = [pc EXCEPT ![p] = "write"]
    /\ UNCHANGED <<now, n1qlTimeout, N1qlRetryBehavior, queryCache, call, hist>>

\* a store that keeps the entry a statement already has
WriteCacheIfAbsent(p) ==
    /\ ~Crashed
    /\ pc[p] = "write"
    /\ queryCache' = IF queryCache[call[p].stmtStr] = NilPlan
                     THEN [queryCache EXCEPT ![call[p].stmtStr] = call[p].cachedStmt]
                     ELSE queryCache
    /\ hist' = [hist EXCEPT ![p].stores = @ + 1]
    /\ pc' = [pc EXCEPT ![p] = "wunlock"]
    /\ UNCHANGED <<now, n1qlTimeout, N1qlRetryBehavior, clusterLock, call>>

\* doPreparedN1qlQuery, line 339: the map write
WriteCache(p) ==
    /\ ~Crashed
    /\ pc[p] = "write"
    /\ queryCache' = [queryCache EXCEPT ![call[p].stmtStr] = call[p].cachedStmt]
    /\ hist' = [hist EXCEPT ![p].stores = @ + 1]
    /\ pc' = [pc EXCEPT ![p] = "wunlock"]
    /\ UNCHANGED <<now, n1qlTimeout, N1qlRetryBehavior, clusterLock, call>>

\* doPreparedN1qlQuery, line 340: c.clusterLock.Unlock()
Unlock(p) ==
    /\ ~Crashed
    /\ pc[p] = "wunlock"
    /\ clusterLock' = [clusterLock EXCEPT !.writer = 0]
    /\ pc' = [pc EXCEPT ![p] = "execute"]
    /\ UNCHANGED <<now, n1qlTimeout, N1qlRetryBehavior, queryCache, call, hist>>

\* doPreparedN1qlQuery, lines 342-350: execute the new plan
ExecutePrepared(p) ==
    /\ ~Crashed
    /\ pc[p] = "execute"
    /\ \E resp \in Responses :
         LET opts == WithPlan(call[p].queryOpts, call[p].cachedStmt)
             c == [call[p] EXCEPT !.queryOpts = opts]
             out == executeN1qlQuery(resp)
             h == Dispatched(hist[p], Request("execute", c, opts), out.err)
         IN  Complete(p, c, out.res, out.err, h)
    /\ UNCHANGED <<now, n1qlTimeout, N1qlRetryBehavior, queryCache, clusterLock>>

----------------------------------------------------------------------------
(* Specification: one caller, any number of calls one after the other *)

Step(p) ==
    \/ \E adHoc \in BOOLEAN, statement \in Stmts,
          parent \in ParentDeadlines, options \in CallOptions :
            Query(p, adHoc, statement, parent, options)
    \/ LoopTop(p)
    \/ ExecuteAdHoc(p)
    \/ RLock(p)
    \/ ReadCache(p)
    \/ RUnlock(p)
    \/ ExecuteCached(p)
    \/ Prepare(p)
    \/ Lock(p)
    \/ WriteCache(p)
    \/ Unlock(p)
    \/ ExecutePrepared(p)
    \/ Sleep(p)
    \/ Return(p)

Next ==
    \/ \E p \in SeqProcs : Step(p)
    \/ Tick

Spec == Init /\ [][Next]_vars

\* Specification for the timeout reconciliation: ad-hoc calls of one statement
\* with every override and every caller deadline
StepTimeout(p) ==
    \/ \E parent \in ParentDeadlines, options \in Options :
            Query(p, TRUE, <<"s1">>, parent, options)
    \/ LoopTop(p)
    \/ ExecuteAdHoc(p)
    \/ Sleep(p)
    \/ Return(p)

NextTimeout ==
    \/ \E p \in SeqProcs : StepTimeout(p)
    \/ Tick

SpecTimeout == Init /\ [][NextTimeout]_vars

-----------------------------------------------------------------------------
(* The caller's use of the cursor that Cluster.query returned *)

\* executeN1qlQuery of an ad-hoc call, the response and the state of its body
\* recorded
ExecuteObserved(p) ==
    /\ ~Crashed
    /\ pc[p] = "adhoc"
    /\ \E resp \in ObservedResponses :
         LET c == call[p]
             out == executeN1qlQuery(resp)
             h == [Dispatched(hist[p], Request("execute", c, c.queryOpts), out.err)
                     EXCEPT !.resp = resp, !.bodyClosed = out.bodyClosed]
         IN  Complete(p, c, out.res, out.err, h)
    /\ UNCHANGED <<now, n1qlTimeout, N1qlRetryBehavior, queryCache, clusterLock>>

\* the caller holds a cursor
HasResults(p) == pc[p] = "returned" /\ call[p].res # NilResults

\* the cursor after an operation and what the operation gave back
Used(p, r, outcome) ==
    /\ call' = [call EXCEPT ![p].res = r]
    /\ hist' = [hist EXCEPT ![p].last =
                    [outcome EXCEPT !.again = hist[p].last.op = outcome.op]]
    /\ UNCHANGED <<now, n1qlTimeout, N1qlRetryBehavior, queryCache, clusterLock>>

\* rows.Next(&value) with a fresh value
CallNext(p) ==
    /\ ~Crashed
    /\ HasResults(p)
    /\ LET o == ResultsNext(call[p].res, ZeroPrepData) IN
         Used(p, o.r, [NoOutcome EXCEPT !.op = "Next", !.ok = o.ok, !.val = o.val])
    /\ UNCHANGED pc

\* rows.NextBytes()
CallNextBytes(p) ==
    /\ ~Crashed
    /\ HasResults(p)
    /\ LET o == NextBytes(call[p].res) IN
         Used(p, o.r, [NoOutcome EXCEPT !.op = "NextBytes", !.row = o.row])
    /\ UNCHANGED pc

\* rows.Close()
CallClose(p) ==
    /\ ~Crashed
    /\ HasResults(p)
    /\ LET o == Close(call[p].res) IN
         Used(p, o.r, [NoOutcome EXCEPT !.op = "Close", !.err = o.err])
    /\ UNCHANGED pc

\* rows.One(&value) with a fresh value
CallOne(p) ==
    /\ ~Crashed
    /\ HasResults(p)
    /\ LET o == One(call[p].res, ZeroPrepData) IN
         Used(p, o.r, [NoOutcome EXCEPT !.op = "One", !.err = o.err, !.val = o.val])
    /\ UNCHANGED pc

\* accessors that hand out the meta-data of an open cursor
MustBeClosedNever(r) == FALSE

\* the guard of the three accessors: panic unless r.closed
MustBeClosed(r) == ~r.closed

\* what an accessor of the cursor's meta-data does when it is to return the
\* string str or the metrics
Accessed(p, op, str, metrics) ==
    IF MustBeClosed(call[p].res)
    THEN /\ pc' = [pc EXCEPT ![p] = "panicked"]
         /\ Used(p, call[p].res, [NoOutcome EXCEPT !.op = op, !.panicked = TRUE])
    ELSE /\ UNCHANGED pc
         /\ Used(p, call[p].res, [NoOutcome EXCEPT !.op = op, !.str = str, !.metrics = metrics])

\* rows.RequestId()
RequestId(p) ==
    /\ ~Crashed
    /\ HasResults(p)
    /\ Accessed(p, "RequestId", call[p].res.requestId, ZeroMetrics)

\* rows.ClientContextId()
ClientContextId(p) ==
    /\ ~Crashed
    /\ HasResults(p)
    /\ Accessed(p, "ClientContextId", call[p].res.clientContextId, ZeroMetrics)

\* rows.Metrics()
Metrics(p) ==
    /\ ~Crashed
    /\ HasResults(p)
    /\ Accessed(p, "Metrics", "", call[p].res.metrics)

\* Specification for the result cursor: an ad-hoc call without deadline gets
\* any response, and the caller then uses the cursor in any order
StepResults(p) ==
    \/ Query(p, TRUE, <<"s1">>, NoDeadline, EmptyMap)
    \/ LoopTop(p)
    \/ ExecuteObserved(p)
    \/ Sleep(p)
    \/ Return(p)
    \/ CallNext(p)
    \/ CallNextBytes(p)
    \/ CallClose(p)
    \/ CallOne(p)
    \/ RequestId(p)
    \/ ClientContextId(p)
    \/ Metrics(p)

NextResults == \E p \in SeqProcs : StepResults(p)

SpecResults == Init /\ [][NextResults]_vars

-----------------------------------------------------------------------------
(* Specification: several goroutines call Cluster.query on one client *)

\* a client with a timeout of one unit and no retry policy
InitConc ==
    /\ Init
    /\ n1qlTimeout = 1
    /\ N1qlRetryBehavior = NilBehavior

\* every caller runs the same statement in cached mode without deadline; no
\* time passes
StepConc(p) ==
    \/ Query(p, FALSE, <<"s1">>, NoDeadline, EmptyMap)
    \/ LoopTop(p)
    \/ RLock(p)
    \/ ReadCache(p)
    \/ RUnlock(p)
    \/ ExecuteCached(p)
    \/ Prepare(p)
    \/ Lock(p)
    \/ WriteCache(p)
    \/ Unlock(p)
    \/ ExecutePrepared(p)
    \/ Return(p)

NextConc == \E p \in Procs : StepConc(p)

SpecConc == InitConc /\ [][NextConc]_vars

----------------------------------------------------------------------------
(* Properties *)

\* caller p takes a step of its call
Moves(p) == <<pc[p], call[p], hist[p]>>' # <<pc[p], call[p], hist[p]>>

\* the call of p is in progress or has just returned
InCall(p) == pc[p] # "idle"

\* the requests of the current unit of work of p
UnitReqs(p) == SelectSeq(hist[p].reqs, LAMBDA r : r.attempt = call[p].retries)

\* C1: whenever the derived context is done at the top of a loop iteration,
\* that iteration returns the context's error and the loop does not run again.
C1_DoneAtLoopTopReturns ==
    [][\A p \in Procs :
        (pc[p] = "loop" /\ Done(call[p].ctx, now) /\ Moves(p))
            => (pc'[p] = "returned" /\ call'[p].err = DeadlineExceeded)]_vars

\* C2: a call whose caller context is already past its deadline dispatches
\* nothing and leaves the plan cache as it was.
C2_ExpiredParentNoDispatch ==
    \A p \in Procs :
        (InCall(p) /\ call[p].parent # NoDeadline /\ call[p].parent[1] <= call[p].start)
            => /\ hist[p].reqs = <<>>
               /\ hist[p].stores = 0
               /\ queryCache = hist[p].cacheAtCall

C2_Witness ==
    \E p \in Procs :
        /\ pc[p] = "loop" /\ hist[p].spins > 0
        /\ ~call[p].adHoc
        /\ call[p].parent # NoDeadline /\ call[p].parent[1] <= call[p].start
        /\ queryCache[call[p].statement] # NilPlan

\* C3: ad-hoc, a policy allowing N retries, every unit of work failing with a
\* retryable error: N+1 units of work numbered 1..N+1, N sleeps, and the error
\* returned is the one of the last attempt.
C3_RetriesExhausted ==
    \A p \in Procs :
        (InCall(p) /\ call[p].adHoc /\ N1qlRetryBehavior # NilBehavior)
            => LET N == N1qlRetryBehavior.maxRetries IN
               /\ call[p].retries <= N + 1
               /\ hist[p].sleeps <= N
               /\ (pc[p] = "returned" /\ isRetryableError(call[p].err))
                    => /\ call[p].retries = N + 1
                       /\ Len(hist[p].reqs) = N + 1
                       /\ \A i \in 1..(N + 1) : hist[p].reqs[i].attempt = i
                       /\ hist[p].sleeps = N
                       /\ call[p].err = hist[p].lastErr

C3_Witness ==
    \E p \in Procs :
        /\ pc[p] = "returned" /\ call[p].adHoc
        /\ N1qlRetryBehavior = RetryBehavior(2)
        /\ isRetryableError(call[p].err)
        /\ Len(hist[p].reqs) = 3 /\ hist[p].sleeps = 2

\* the positions at which a unit of work ends
UnitEnds == {"adhoc", "cached", "prepare", "execute"}

\* C4: a failed unit of work is followed by a sleep and another attempt only
\* if the error is retryable, a policy is set and CanRetry(retries) holds;
\* otherwise the call returns that error without sleeping, and a call that has
\* returned dispatches nothing more. Without a policy there is one unit of work.
C4_RetryOnlyIfAllThree ==
    [][\A p \in Procs :
        /\ (pc[p] \in UnitEnds /\ pc'[p] \in {"sleep", "returned"} /\ call'[p].err # NoErr)
             => LET e == call'[p].err
                    permitted == /\ isRetryableError(e)
                                 /\ N1qlRetryBehavior # NilBehavior
                                 /\ CanRetry(N1qlRetryBehavior, call[p].retries)
                IN  /\ e = hist'[p].lastErr
                    /\ (pc'[p] = "sleep") <=> permitted
                    /\ hist'[p].sleeps = hist[p].sleeps
                    /\ Len(hist'[p].reqs) = Len(hist[p].reqs) + 1
        /\ (call'[p].retries > call[p].retries) => hist[p].sleeps = call[p].retries
        /\ pc[p] = "returned" => pc'[p] \in {"returned", "idle"}
        /\ N1qlRetryBehavior = NilBehavior => call'[p].retries <= 1]_vars

C4_Witness ==
    \E p \in Procs :
        /\ pc[p] = "returned"
        /\ call[p].err # NoErr /\ ~isRetryableError(call[p].err)
        /\ N1qlRetryBehavior # NilBehavior
        /\ CanRetry(N1qlRetryBehavior, call[p].retries)
        /\ call[p].retries = 2 /\ hist[p].sleeps = 1

\* C5: an ad-hoc call never looks up or stores in the plan cache, never takes
\* its lock, and the cache is what it was when the call began.
C5_AdHocBypassesCache ==
    \A p \in Procs :
        (InCall(p) /\ call[p].adHoc)
            => /\ hist[p].lookups = 0
               /\ hist[p].stores = 0
               /\ p \notin clusterLock.readers
               /\ clusterLock.writer # p
               /\ queryCache = hist[p].cacheAtCall

C5_Witness ==
    \E p \in Procs :
        /\ pc[p] = "returned" /\ call[p].adHoc
        /\ call[p].retries = 2 /\ Len(hist[p].reqs) = 2
        /\ call[p].err = NoErr

\* C6: a cached-mode call that succeeds leaves a plan for its statement in
\* the cache (stored by the call when there was none); a call that finds a plan
\* and whose execution of it succeeds dispatches one request, an execute with
\* prepared/encoded_plan and no statement, and leaves the cache unchanged.
C6_CachedPlanReused ==
    \A p \in Procs :
        (pc[p] = "returned" /\ ~call[p].adHoc /\ call[p].err = NoErr)
            => LET stmt == call[p].statement
                   before == hist[p].cacheAtCall[stmt]
                   reqs == hist[p].reqs
               IN  /\ queryCache[stmt] # NilPlan
                   /\ before = NilPlan
                        => /\ hist[p].stores >= 1
                           /\ \E i \in 1..Len(reqs) : reqs[i].kind = "prepare"
                   /\ before # NilPlan
                        => /\ Len(reqs) = 1
                           /\ reqs[1].kind = "execute"
                           /\ ~MapHas(reqs[1].opts, "statement")
                           /\ reqs[1].opts["prepared"] = before.name
                           /\ reqs[1].opts["encoded_plan"] = before.encodedPlan
                           /\ hist[p].stores = 0
                           /\ queryCache = hist[p].cacheAtCall

C6_Witness ==
    \E p \in Procs :
        /\ pc[p] = "returned" /\ ~call[p].adHoc /\ call[p].err = NoErr
        /\ hist[p].cacheAtCall[call[p].statement] = n1qlCache("p1", "e1")
        /\ Len(hist[p].reqs) = 1

\* the cache-hit execution of the current unit of work of p failed with a
\* retryable error
HitFailedRetryable(p) ==
    /\ Len(UnitReqs(p)) > 0
    /\ UnitReqs(p)[1].kind = "execute"
    /\ MapHas(UnitReqs(p)[1].opts, "prepared")
    /\ \/ Len(UnitReqs(p)) > 1
       \/ pc[p] \in {"prepare", "panicked"}

\* C7: after a cache-hit execution failed with a retryable error the unit of
\* work does not crash: it prepares once, overwrites the entry and executes
\* once more with the new plan, the attempt counter unchanged.
C7_ReprepareCompletes ==
    \A p \in Procs :
        HitFailedRetryable(p)
            => /\ pc[p] # "panicked"
               /\ pc[p] \in {"sleep", "returned"}
                    => /\ Len(UnitReqs(p)) = 3
                       /\ UnitReqs(p)[2].kind = "prepare"
                       /\ UnitReqs(p)[3].kind = "execute"
                       /\ UnitReqs(p)[3].opts["prepared"] = queryCache[call[p].statement].name

\* C8: a request the prepare step dispatches carries "PREPARE " + statement.
C8_PrepareRequestText ==
    \A p \in Procs :
        \A i \in 1..Len(hist[p].reqs) :
            hist[p].reqs[i].kind = "prepare"
                => /\ MapHas(hist[p].reqs[i].opts, "statement")
                   /\ hist[p].reqs[i].opts["statement"] = <<"PREPARE">> \o call[p].statement

\* the override of the call of p is absent or a duration string that parses
OverrideParses(p) ==
    MapHas(call[p].options, "timeout") => Len(call[p].options["timeout"]) = 2

\* C9: the effective timeout is the override O when 0 < O <= T and the client
\* default T otherwise (a search query chooses the same); the derived context's
\* deadline is min(D, start + E) and is never later than a supplied deadline.
C9_EffectiveTimeout ==
    \A p \in Procs :
        (InCall(p) /\ OverrideParses(p))
            => LET has == MapHas(call[p].options, "timeout")
                   O == IF has THEN call[p].options["timeout"][1] ELSE 0
                   T == n1qlTimeout
                   E == IF has /\ 0 < O /\ O <= T THEN O ELSE T
                   D == call[p].parent
                   start == call[p].start
               IN  /\ call[p].timeout = E
                   /\ searchEffectiveTimeout(has, O, T) = E
                   /\ call[p].queryOpts["timeout"] = DurationString(E)
                   /\ call[p].ctx = IF D # NoDeadline /\ D[1] <= start + E
                                    THEN D[1] ELSE start + E
                   /\ call[p].ctx <= start + T
                   /\ D # NoDeadline => call[p].ctx <= D[1]
                   /\ (has /\ O > 0) => call[p].ctx <= start + O

C9_Witness ==
    \E p \in Procs :
        /\ pc[p] = "loop"
        /\ MapHas(call[p].options, "timeout")
        /\ call[p].options["timeout"] = DurationString(1)
        /\ n1qlTimeout = 2
        /\ call[p].parent = DeadlineAt(2) /\ call[p].start = 0
        /\ call[p].ctx = 1

\* C10: a call whose derived context expired has failed with the context's
\* error; the caller's context error is nil when the client timeout expired
\* first and DeadlineExceeded when the caller's deadline did.
C10_CancellationSource ==
    \A p \in Procs :
        (InCall(p) /\ call[p].err = DeadlineExceeded)
            => LET D == call[p].parent
                   clientAt == call[p].start + call[p].timeout
               IN  /\ pc[p] = "returned"
                   /\ (D = NoDeadline \/ now < D[1]) => ParentErr(D, now) = NoErr
                   /\ (D # NoDeadline /\ D[1] <= clientAt)
                        => ParentErr(D, now) = DeadlineExceeded

\* the accessors of the cursor's meta-data
MetaOps == {"RequestId", "ClientContextId", "Metrics"}

\* caller p has just called the operation op of its cursor
Called(p, ops) == hist[p].last' # hist[p].last /\ hist[p].last'.op \in ops

\* the accessor op has returned to p what the response resp carries
ReturnedFrom(p, op, resp) ==
    /\ op = "RequestId" => hist[p].last'.str = resp.RequestId
    /\ op = "ClientContextId" => hist[p].last'.str = resp.ClientContextId
    /\ op = "Metrics" =>
          /\ hist[p].last'.metrics.ResultCount = resp.Metrics.ResultCount
          /\ hist[p].last'.metrics = QueryResultMetrics(resp.Metrics)

\* C11: RequestId, ClientContextId and Metrics panic exactly when the cursor is
\* not closed; on a closed cursor they return the request id, the client
\* context id and the metrics of the response; they never change the cursor.
C11_MetadataAccessors ==
    [][\A p \in SeqProcs :
         Called(p, MetaOps) =>
            /\ hist[p].last'.panicked <=> ~call[p].res.closed
            /\ hist[p].last'.panicked <=> pc'[p] = "panicked"
            /\ call'[p].res = call[p].res
            /\ ~hist[p].last'.panicked =>
                  ReturnedFrom(p, hist[p].last'.op, hist[p].resp)]_vars

\* the metrics of a response with a duration that does not parse, read after
\* the rows were consumed
C11_Witness ==
    \E p \in SeqProcs :
        /\ pc[p] = "returned"
        /\ call[p].res # NilResults
        /\ call[p].res.closed
        /\ call[p].res.index = 1
        /\ hist[p].last.op = "Metrics"
        /\ hist[p].last.metrics =
              [ElapsedTime |-> 0, ExecutionTime |-> 2, ResultCount |-> 1]

\* C12: whenever NextBytes returns nil the cursor is closed on return, also
\* after an earlier Next recorded a decode error.
C12_EndSignalCloses ==
    \A p \in SeqProcs :
        (HasResults(p) /\ hist[p].last.op = "NextBytes" /\ hist[p].last.row = NilRow)
            => call[p].res.closed

\* the row the next advance of cursor r is to decode, NilRow at the end
Upcoming(r) ==
    IF r.index + 1 >= Len(r.rows) THEN NilRow ELSE r.rows[r.index + 2]

\* C13: after One returns the cursor is closed in every case and the index has
\* advanced by at most one row; on a response without rows nothing is decoded
\* into the target; when the single advance failed to decode, One returns the
\* decode error, which the cursor retains.
C13_OneCloses ==
    [][\A p \in SeqProcs :
         CallOne(p) =>
            LET r == call[p].res
                after == call'[p].res
                out == hist[p].last'
            IN  /\ after.closed
                /\ after.index \in {r.index, r.index + 1}
                /\ after.rows = r.rows
                /\ Len(r.rows) = 0 => (out.val = ZeroPrepData /\ out.err = NoErr)
                /\ (r.err = NoErr /\ Upcoming(r) # NilRow /\ ~Upcoming(r).valid) =>
                      /\ out.err = JsonUnmarshalErr
                      /\ after.err = JsonUnmarshalErr
                      /\ after.index = r.index + 1]_vars

\* One on a cursor of several rows whose first row does not decode
C13_Witness ==
    \E p \in SeqProcs :
        /\ HasResults(p)
        /\ hist[p].last.op = "One"
        /\ hist[p].last.err = JsonUnmarshalErr
        /\ call[p].res.closed
        /\ call[p].res.index = 0
        /\ Len(call[p].res.rows) = 2

\* C14: once a Next has recorded a decode error, every later Next returns
\* false and every later NextBytes returns nil without advancing the index or
\* decoding a row, the retained error is never overwritten or cleared, and
\* Close returns that error.
C14_StickyFirstError ==
    [][\A p \in SeqProcs :
         (HasResults(p) /\ call[p].res.err # NoErr /\ call'[p].res # NilResults) =>
            LET r == call[p].res
                after == call'[p].res
                out == hist[p].last'
            IN  /\ r.err = JsonUnmarshalErr
                /\ after.err = r.err
                /\ after.index = r.index
                /\ CallNext(p) => (~out.ok /\ out.val = ZeroPrepData)
                /\ CallNextBytes(p) => out.row = NilRow
                /\ CallOne(p) => (out.err = r.err /\ out.val = ZeroPrepData)
                /\ CallClose(p) => out.err = r.err]_vars

\* Close after a decode error on the first of three rows
C14_Witness ==
    \E p \in SeqProcs :
        /\ HasResults(p)
        /\ hist[p].last.op = "Close"
        /\ hist[p].last.err = JsonUnmarshalErr
        /\ call[p].res.index = 0
        /\ Len(call[p].res.rows) = 3
        /\ call[p].res.rows[2].valid

\* C15: Close is idempotent: a Close after a Close leaves the cursor as the
\* first one left it (closed, index and retained error unchanged) and returns
\* the same error; every Close returns the retained error, nil if none.
C15_CloseIdempotent ==
    [][\A p \in SeqProcs :
         CallClose(p) =>
            LET r == call[p].res
                after == call'[p].res
                out == hist[p].last'
                twice == Close(after)
            IN  /\ after = [r EXCEPT !.closed = TRUE]
                /\ out.err = r.err
                /\ twice.r = after
                /\ twice.err = out.err
                /\ hist[p].last.op = "Close" =>
                      (after = r /\ out.err = hist[p].last.err)]_vars

\* a second Close in a row of a cursor that retains a decode error
C15_Witness ==
    \E p \in SeqProcs :
        /\ HasResults(p)
        /\ hist[p].last.op = "Close"
        /\ hist[p].last.again
        /\ hist[p].last.err = JsonUnmarshalErr
        /\ call[p].res.closed
        /\ call[p].res.index = 1

\* the last response the call of p received was decoded and lists errors
ErrorsListed(p) ==
    /\ hist[p].resp.ok
    /\ hist[p].resp.decodable
    /\ Len(hist[p].resp.Errors) > 0

\* C16: a decoded response with a non-empty error list gives, at every status
\* code, no cursor and one error whose code and message are those of the first
\* listed error and which carries the whole list in order.
C16_ErrorListSurfaced ==
    \A p \in SeqProcs :
        ErrorsListed(p) =>
            LET err == hist[p].lastErr
                first == hist[p].resp.Errors[1]
            IN  /\ call[p].res = NilResults
                /\ err.type = "n1qlMultiError"
                /\ err.errors = hist[p].resp.Errors
                /\ n1qlMultiErrorCode(err) = first.Code
                /\ n1qlMultiErrorError(err) = <<"[", first.Code, "] ", first.Message>>
                /\ pc[p] = "returned" => call[p].err = err

\* a call returned with the error list of a 200 response that also has rows
C16_Witness ==
    \E p \in SeqProcs :
        /\ pc[p] = "returned"
        /\ ErrorsListed(p)
        /\ hist[p].resp.StatusCode = 200
        /\ Len(hist[p].resp.Errors) = 2
        /\ Len(hist[p].resp.Results) > 0
        /\ n1qlMultiErrorCode(call[p].err) = 1000

\* C17: for every response executeN1qlQuery receives, the body is closed by
\* the time it returns, whether the body decoded or not.
C17_BodyClosed ==
    \A p \in SeqProcs : hist[p].resp.ok => hist[p].bodyClosed

\* caller p holds the plan-cache lock
HoldsLock(p) == p \in clusterLock.readers \/ clusterLock.writer = p

\* where a call dispatches to the provider, decodes a response or sleeps
OutsideLock == {"adhoc", "cached", "prepare", "execute", "sleep"}

AtMap(p) == pc[p] \in {"read", "runlock", "write", "wunlock"}

\* C19: under any interleaving of cached-mode calls the plan cache only grows
\* or is overwritten: an entry never disappears; the cache changes only by a
\* store, which sets the entry of its statement text to its whole plan while
\* no other call reads or writes the map (last writer wins); a lookup gets the
\* entry of its statement text as the last store left it.
C19_LastWriterWins ==
    [][/\ \A k \in CacheKeys : queryCache[k] # NilPlan => queryCache'[k] # NilPlan
       /\ queryCache' # queryCache =>
             \E p \in Procs : pc[p] = "write" /\ pc'[p] = "wunlock"
       /\ \A p \in Procs :
             /\ (pc[p] = "write" /\ pc'[p] = "wunlock") =>
                   /\ call[p].cachedStmt # NilPlan
                   /\ queryCache' = [queryCache EXCEPT ![call[p].stmtStr] = call[p].cachedStmt]
                   /\ \A q \in Procs \ {p} : ~AtMap(q)
             /\ (pc[p] = "read" /\ pc'[p] = "runlock") =>
                   /\ call'[p].cachedStmt = queryCache[call[p].stmtStr]
                   /\ \A q \in Procs \ {p} : pc[q] \notin {"write", "wunlock"}]_vars

\* two calls missed the cache for the same statement and each prepared; the
\* second store has replaced the plan of the first by a different one
C19_Witness ==
    \E p, q \in Procs :
        /\ pc[p] = "wunlock"
        /\ pc[q] = "execute"
        /\ hist[p].stores = 1
        /\ hist[q].stores = 1
        /\ hist[p].cacheAtCall[call[p].statement] = NilPlan
        /\ hist[q].cacheAtCall[call[q].statement] = NilPlan
        /\ call[p].statement = call[q].statement
        /\ call[p].cachedStmt # call[q].cachedStmt
        /\ queryCache[call[p].statement] = call[p].cachedStmt

\* C20: in cached mode every outer iteration, also the one after a retryable
\* failure, works on the original statement: the options carried into the
\* iteration still hold the statement, and the cache lookup is keyed by it.
C20_RetryKeepsStatement ==
    \A p \in SeqProcs :
        ~call[p].adHoc =>
            /\ pc[p] \in {"loop", "rlock"} =>
                  StatementOf(call[p].queryOpts) = call[p].statement
            /\ pc[p] \in {"read", "runlock"} =>
                  call[p].stmtStr = call[p].statement

\* the number of requests in h that belong to attempt number n
ReqsOfAttempt(h, n) == Len(SelectSeq(h.reqs, LAMBDA r : r.attempt = n))

\* C21: when the execution of a cached plan fails with a non-retryable error,
\* the unit of work returns that error with no cursor after its one dispatch,
\* without a prepare or a second execute, and the plan cache stays as it was.
C21_HitFailureNotRetryable ==
    [][\A p \in Procs :
         (pc[p] = "cached" /\ Moves(p) /\ hist'[p].lastErr # NoErr
                           /\ ~isRetryableError(hist'[p].lastErr)) =>
            /\ pc'[p] = "returned"
            /\ call'[p].err = hist'[p].lastErr
            /\ call'[p].res = NilResults
            /\ Len(hist'[p].reqs) = Len(hist[p].reqs) + 1
            /\ ReqsOfAttempt(hist'[p], call'[p].retries) = 1
            /\ hist'[p].reqs[Len(hist'[p].reqs)].kind = "execute"
            /\ hist'[p].stores = hist[p].stores
            /\ queryCache' = queryCache]_vars

\* a call that found a plan returned the server's syntax error after one
\* request, although the policy would have permitted a retry
C21_Witness ==
    \E p \in Procs :
        /\ pc[p] = "returned"
        /\ ~call[p].adHoc
        /\ hist[p].cacheAtCall[call[p].statement] # NilPlan
        /\ call[p].err.type = "n1qlMultiError"
        /\ n1qlMultiErrorCode(call[p].err) = 1000
        /\ Len(hist[p].reqs) = 1
        /\ MapHas(hist[p].reqs[1].opts, "prepared")
        /\ N1qlRetryBehavior # NilBehavior
        /\ queryCache = hist[p].cacheAtCall

\* the step of p is a prepare request that ended with an error
PrepareFailed(p) ==
    /\ pc[p] = "prepare"
    /\ Len(hist'[p].reqs) = Len(hist[p].reqs) + 1
    /\ hist'[p].lastErr # NoErr

\* C22: when the prepare step fails (dispatch error, error list, or a plan row
\* that does not decode), the unit of work ends with that error and no cursor,
\* the plan cache is not written (it is what it was before the unit of work),
\* no execute follows, and the error goes through the retry classification.
C22_PrepareFailure ==
    [][\A p \in SeqProcs :
         PrepareFailed(p) =>
            LET err == hist'[p].lastErr IN
            /\ call'[p].err = err
            /\ call'[p].res = NilResults
            /\ hist'[p].reqs[Len(hist'[p].reqs)].kind = "prepare"
            /\ pc'[p] = AfterUnit(err, call[p].retries)
            /\ pc'[p] \in {"sleep", "returned"}
            /\ pc'[p] = "sleep" <=>
                  /\ isRetryableError(err)
                  /\ N1qlRetryBehavior # NilBehavior
                  /\ CanRetry(N1qlRetryBehavior, call[p].retries)
            /\ hist'[p].stores = 0
            /\ queryCache' = queryCache
            /\ queryCache' = hist[p].cacheAtCall]_vars

\* the prepare of an uncached statement was answered with error 4050 and the
\* call is about to retry
C22_Witness ==
    \E p \in SeqProcs :
        /\ pc[p] = "sleep"
        /\ ~call[p].adHoc
        /\ Len(hist[p].reqs) = 1
        /\ hist[p].reqs[1].kind = "prepare"
        /\ call[p].err.type = "n1qlMultiError"
        /\ n1qlMultiErrorCode(call[p].err) = 4050
        /\ queryCache[call[p].statement] = NilPlan

\* C23: a cursor with a nil error is returned only for a response with status
\* 200 and an empty error list; a response with another status is surfaced as
\* an error, so a call returns either a cursor or an error.
C23_CursorOnlyFor200 ==
    \A p \in SeqProcs :
        pc[p] = "returned" =>
            /\ (call[p].res # NilResults) <=> (call[p].err = NoErr)
            /\ (call[p].res # NilResults) =>
                  /\ hist[p].resp.ok
                  /\ hist[p].resp.StatusCode = 200
                  /\ Len(hist[p].resp.Errors) = 0

\* C24: the cursor is forward-only and single-pass: while no decode error is
\* retained, every NextBytes or Next takes the row after the last one taken
\* (rows 0, 1, ..., n-1 in order, each once) and gives nil or false once all
\* n rows were taken; -1 <= index <= n-1 always, the index never decreases and
\* no operation resets it.
C24_ForwardOnly ==
    [][\A p \in SeqProcs :
         (HasResults(p) /\ call'[p].res # NilResults) =>
            LET r == call[p].res
                after == call'[p].res
                out == hist[p].last'
                n == Len(r.rows)
            IN  /\ -1 <= r.index /\ r.index <= n - 1
                /\ -1 <= after.index /\ after.index <= n - 1
                /\ after.rows = r.rows
                /\ after.index \in {r.index, r.index + 1}
                /\ (CallNextBytes(p) /\ r.err = NoErr) =>
                      IF r.index + 1 < n
                      THEN out.row = r.rows[r.index + 2] /\ after.index = r.index + 1
                      ELSE out.row = NilRow /\ after.index = r.index
                /\ (CallNext(p) /\ r.err = NoErr) =>
                      IF r.index + 1 < n
                      THEN /\ after.index = r.index + 1
                           /\ r.rows[r.index + 2].valid =>
                                 /\ out.ok
                                 /\ out.val.Name = r.rows[r.index + 2].name
                      ELSE ~out.ok /\ after.index = r.index]_vars

\* all three rows were taken and NextBytes has given nil twice in a row
C24_Witness ==
    \E p \in SeqProcs :
        /\ HasResults(p)
        /\ Len(call[p].res.rows) = 3
        /\ call[p].res.index = 2
        /\ call[p].res.err = NoErr
        /\ hist[p].last.op = "NextBytes"
        /\ hist[p].last.row = NilRow
        /\ hist[p].last.again

\* the options o name a statement
ByStatement(o) ==
    MapHas(o, "statement") /\ ~MapHas(o, "prepared") /\ ~MapHas(o, "encoded_plan")

\* the options o name a prepared plan
ByPlan(o) ==
    ~MapHas(o, "statement") /\ MapHas(o, "prepared") /\ MapHas(o, "encoded_plan")

\* the step of p has dispatched a request
Dispatches(p) == Len(hist'[p].reqs) = Len(hist[p].reqs) + 1

\* C25: every request of a cached-mode call names its work either by a
\* "statement" key or by the pair "prepared" and "encoded_plan", never by both
\* and never by neither; an execute after a cache hit or after a prepare
\* carries the name and the encoded form of the plan and no "statement" key.
C25_OneFormOfWork ==
    [][\A p \in SeqProcs :
         (~call[p].adHoc /\ pc[p] \in {"cached", "prepare", "execute"} /\ Dispatches(p)) =>
            LET req == hist'[p].reqs[Len(hist'[p].reqs)]
                plan == call[p].cachedStmt
            IN  /\ ByStatement(req.opts) \/ ByPlan(req.opts)
                /\ pc[p] = "prepare" => ByStatement(req.opts)
                /\ pc[p] \in {"cached", "execute"} =>
                      /\ req.kind = "execute"
                      /\ ByPlan(req.opts)
                      /\ plan # NilPlan
                      /\ plan = queryCache[call[p].stmtStr]
                      /\ req.opts["prepared"] = plan.name
                      /\ req.opts["encoded_plan"] = plan.encodedPlan]_vars

\* a call has prepared its statement and executed the new plan p1
C25_Witness ==
    \E p \in SeqProcs :
        /\ pc[p] = "returned"
        /\ ~call[p].adHoc
        /\ Len(hist[p].reqs) = 2
        /\ hist[p].reqs[1].kind = "prepare"
        /\ ByStatement(hist[p].reqs[1].opts)
        /\ hist[p].reqs[2].kind = "execute"
        /\ ByPlan(hist[p].reqs[2].opts)
        /\ hist[p].reqs[2].opts["prepared"] = "p1"

\* C26: the closed flag is terminal: no operation resets it, and once the
\* cursor is closed (by Close, by One or at the end of the rows) no NextBytes
\* or Next returns a further row or advances the index.
C26_ClosedIsTerminal ==
    [][\A p \in SeqProcs :
         (HasResults(p) /\ call[p].res.closed /\ call'[p].res # NilResults) =>
            /\ call'[p].res.closed
            /\ call'[p].res.index = call[p].res.index
            /\ CallNextBytes(p) => hist[p].last'.row = NilRow
            /\ CallNext(p) => ~hist[p].last'.ok]_vars

====
